---- MODULE Spec2Model ----
(***************************************************************************)
(* Memory lifecycle of the agent: MEMORY.md (the MemoryStore), the monthly *)
(* archive files with INDEX.md (the ArchiveStore), and the services that   *)
(* move entries between them.                                              *)
(*                                                                         *)
(* Text is modelled at token level: a line of a file is a sequence of      *)
(* tokens.  The tokens "*", " ", "[" and "]" are the characters the        *)
(* parsers look at; every other token (a date, a word) is an atomic piece  *)
(* of text that contains none of them, except that a date-time token holds *)
(* the one blank between its date and its time.  A file is the sequence of  *)
(* its non-blank lines after the cosmetic "# MEMORY" header.               *)
(***************************************************************************)
EXTENDS Integers, Sequences, FiniteSets, Bags, TLC

VARIABLES store, archive, index, compressed, clock, result, env, ops

\* the entry list handed to CompressionService.tier_entries and summarize_tier
VARIABLES tier_input

\* PriorityEvaluator: its two fields and the content of its feedback file;
\* DecisionRouter: its two callbacks, and the calls it made to them
VARIABLES feedback_history, priority_adjustments, feedback_file, router, callbacks

\* MemoryScheduler: its running flag, its BackgroundScheduler, its
\* configuration fields, the priority callback it was built with, and the
\* calls its last job made, in their order
VARIABLES is_running, scheduler, config, jarvis_callback, job_calls

\* the archival runs in flight, each with what it has read from MEMORY.md
VARIABLES runs

tierVars == <<tier_input>>
engineVars == <<feedback_history, priority_adjustments, feedback_file, router, callbacks>>
schedVars == <<is_running, scheduler, config, jarvis_callback, job_calls>>
concVars == <<runs>>
\* what the memory services never touch
otherVars == <<tierVars, engineVars, schedVars, concVars>>

vars == <<store, archive, index, compressed, clock, result, env, ops,
          tier_input, feedback_history, priority_adjustments, feedback_file, router, callbacks,
          is_running, scheduler, config, jarvis_callback, job_calls, runs>>

\* a PriorityEvaluator that has learned nothing, built without a feedback
\* file; a DecisionRouter built without callbacks
NoAdjustments == [task \in {} |-> 0]
NoFile == [configured |-> FALSE, state |-> "absent", feedback |-> <<>>, adjustments |-> NoAdjustments]
NoCallbacks == [on_suggest |-> FALSE, on_critical |-> FALSE]

\* BackgroundScheduler(): stopped, no job added yet
NewScheduler == [state |-> "stopped", pending |-> <<>>, jobs |-> <<>>]
\* the configuration MemoryScheduler.__init__ sets; the threshold in
\* hundredths of a MB
DefaultConfig ==
  [compression_hour |-> 4, compression_priority |-> 3,
   archival_day |-> "sun", archival_priority |-> 3,
   threshold_priority |-> 6, memory_size_threshold_mb |-> 500]
\* no job has run
NoCalls == [job |-> "none", how |-> "none", calls |-> <<>>]
\* no archival run in flight
NoRuns == [r \in {} |-> 0]

(***************************************************************************)
(* Bounds of the model.                                                    *)
(***************************************************************************)
MaxInit == 1
MaxStore == 2
MaxOps == 3

(***************************************************************************)
(* Program constants.                                                      *)
(***************************************************************************)
DefaultOlderThanDays == 21

(***************************************************************************)
(* The calendar: the days the model knows, as days since 2026-08-01, with  *)
(* the text of the date (strftime "%Y-%m-%d"), of that day's noon          *)
(* (strftime "%Y-%m-%d %H:%M:%S") and of its month.  Instants are counted  *)
(* in half days: midnight of day n is 2n, noon is 2n+1.                    *)
(***************************************************************************)
Calendar ==
  << [day |-> 62,  date |-> "2026-10-02", noon |-> "2026-10-02 12:00:00", month |-> "2026-10"],
     [day |-> 77,  date |-> "2026-10-17", noon |-> "2026-10-17 12:00:00", month |-> "2026-10"],
     [day |-> 78,  date |-> "2026-10-18", noon |-> "2026-10-18 12:00:00", month |-> "2026-10"],
     [day |-> 84,  date |-> "2026-10-24", noon |-> "2026-10-24 12:00:00", month |-> "2026-10"],
     [day |-> 85,  date |-> "2026-10-25", noon |-> "2026-10-25 12:00:00", month |-> "2026-10"],
     [day |-> 86,  date |-> "2026-10-26", noon |-> "2026-10-26 12:00:00", month |-> "2026-10"],
     [day |-> 92,  date |-> "2026-11-01", noon |-> "2026-11-01 12:00:00", month |-> "2026-11"],
     [day |-> 113, date |-> "2026-11-22", noon |-> "2026-11-22 12:00:00", month |-> "2026-11"] >>

CalIdx == 1..Len(Calendar)
DateTokens == { Calendar[i].date : i \in CalIdx }
NoonTokens == { Calendar[i].noon : i \in CalIdx }
Months == { Calendar[i].month : i \in CalIdx }
\* the texts that match \d{4}-\d{2}-\d{2}: the dates, and digits that are no date
RegexDates == DateTokens \cup {"2026-13-45"}
\* the days on which the program runs (always at noon)
ClockDays == <<92, 113>>

CalOfDay(d) == CHOOSE i \in CalIdx : Calendar[i].day = d
CalOfToken(t) == CHOOSE i \in CalIdx : Calendar[i].date = t \/ Calendar[i].noon = t

\* datetime.now()
Now(c) == 2 * c + 1
\* datetime.now().strftime("%Y-%m-%d")
StrfDate(c) == Calendar[CalOfDay(c)].date
\* datetime.now().strftime("%Y-%m-%d %H:%M:%S")
StrfDateTime(c) == Calendar[CalOfDay(c)].noon

(***************************************************************************)
(* str operations on token sequences.                                      *)
(***************************************************************************)
RECURSIVE LStrip(_)
LStrip(s) == IF s # <<>> /\ Head(s) = " " THEN LStrip(Tail(s)) ELSE s

RECURSIVE RStrip(_)
RStrip(s) == IF s # <<>> /\ s[Len(s)] = " " THEN RStrip(SubSeq(s, 1, Len(s) - 1)) ELSE s

\* str.strip()
Strip(s) == RStrip(LStrip(s))

\* str.startswith(p)
StartsWith(s, p) == Len(s) >= Len(p) /\ SubSeq(s, 1, Len(p)) = p

\* str.split(sep) for a one-token separator
RECURSIVE Split(_, _)
Split(s, sep) ==
  IF \A i \in 1..Len(s) : s[i] # sep
    THEN <<s>>
    ELSE LET i == CHOOSE k \in 1..Len(s) : s[k] = sep /\ \A j \in 1..(k - 1) : s[j] # sep
         IN  <<SubSeq(s, 1, i - 1)>> \o Split(SubSeq(s, i + 1, Len(s)), sep)

\* str.replace(pat, "")
RECURSIVE Remove(_, _)
Remove(s, pat) ==
  IF Len(s) < Len(pat) THEN s
  ELSE IF StartsWith(s, pat) THEN Remove(SubSeq(s, Len(pat) + 1, Len(s)), pat)
  ELSE <<Head(s)>> \o Remove(Tail(s), pat)

\* sep.join(parts) for a one-token separator
RECURSIVE Join(_, _)
Join(parts, sep) ==
  IF parts = <<>> THEN <<>>
  ELSE IF Len(parts) = 1 THEN parts[1]
  ELSE parts[1] \o <<sep>> \o Join(Tail(parts), sep)

BulletOpen == <<"*", " ", "[">>

(***************************************************************************)
(* ArchiveService helpers.                                                 *)
(***************************************************************************)
\* one line of _parse_memory_entries: <<entry>> or <<>> when the line is skipped
parse_line(raw) ==
  LET line == Strip(raw)
      parts == Split(line, "]")
  IN  IF StartsWith(line, BulletOpen) /\ Len(parts) >= 3
        THEN << [timestamp |-> Strip(Remove(parts[1], BulletOpen)),
                 category  |-> Strip(Remove(parts[2], <<"[">>)),
                 content   |-> Strip(Join(SubSeq(parts, 3, Len(parts)), "]"))] >>
        ELSE <<>>

RECURSIVE parse_memory_entries(_)
parse_memory_entries(lines) ==
  IF lines = <<>> THEN <<>>
  ELSE parse_line(Head(lines)) \o parse_memory_entries(Tail(lines))

\* the f-string "* [{timestamp}] [{category}] {content}"
format_entry(e) ==
  BulletOpen \o e.timestamp \o <<"]", " ", "[">> \o e.category \o <<"]", " ">> \o e.content

format_entries_to_memory(entries) == [i \in 1..Len(entries) |-> format_entry(entries[i])]

IsIsoToken(ts) == Len(ts) = 1 /\ ts[1] \in (DateTokens \cup NoonTokens)

\* datetime.fromisoformat, in half days
FromIso(ts) ==
  LET i == CalOfToken(ts[1])
  IN  IF ts[1] = Calendar[i].date THEN 2 * Calendar[i].day ELSE 2 * Calendar[i].day + 1

\* _parse_timestamp: an unparsable timestamp reads as now
parse_timestamp(ts, c) == IF IsIsoToken(ts) THEN FromIso(ts) ELSE Now(c)

\* the key list.sort(key=lambda e: e["timestamp"]) compares: the order of the
\* timestamp texts as strings ("" first, dates and date-times in calendar
\* order, a date before the noon of its day, words after every digit)
SortKey(ts) ==
  IF ts = <<>> THEN 0
  ELSE IF IsIsoToken(ts) THEN FromIso(ts) + 1
  ELSE 2 * Calendar[Len(Calendar)].day + 3

RECURSIVE InsertStable(_, _)
InsertStable(sorted, e) ==
  IF sorted = <<>> THEN <<e>>
  ELSE LET last == sorted[Len(sorted)]
       IN  IF SortKey(last.timestamp) <= SortKey(e.timestamp)
             THEN Append(sorted, e)
             ELSE Append(InsertStable(SubSeq(sorted, 1, Len(sorted) - 1), e), last)

RECURSIVE SortFrom(_, _)
SortFrom(sorted, rest) ==
  IF rest = <<>> THEN sorted ELSE SortFrom(InsertStable(sorted, Head(rest)), Tail(rest))

\* the merge without its sort
sort_by_timestamp_omitted(entries) == entries

\* merged_entries.sort(key=lambda e: e["timestamp"]), a stable sort
sort_by_timestamp(entries) == SortFrom(<<>>, entries)

\* timestamp_str.split()[0][:7] of _group_by_month; <<>> when it raises
month_id(ts) ==
  IF IsIsoToken(ts) THEN <<Calendar[CalOfToken(ts[1])].month>>
  ELSE IF Strip(ts) = <<>> THEN <<>>
  ELSE <<Head(Strip(ts))>>

\* the keys of _group_by_month(old_entries)
group_ids(old) ==
  { month_id(old[i].timestamp)[1] : i \in { k \in 1..Len(old) : month_id(old[k].timestamp) # <<>> } }

\* _group_by_month(old_entries)[m]
group_by_month(old, m) == SelectSeq(old, LAMBDA e : month_id(e.timestamp) = <<m>>)

(***************************************************************************)
(* Repositories.                                                           *)
(***************************************************************************)
\* ArchiveRepository.append_entries: the lines appended to the partition
append_lines(entries) == [i \in 1..Len(entries) |-> format_entry(entries[i])]

\* ArchiveRepository.get_metadata(p)["entry_count"]
entry_count(lines) == Len(SelectSeq(lines, LAMBDA l : StartsWith(l, BulletOpen)))

\* ArchiveRepository.update_index(p, n): upsert of one index line
update_index(idx, p, n) == [q \in DOMAIN idx \cup {p} |-> IF q = p THEN n ELSE idx[q]]

\* MemoryRepository.write: the line "* [today] content" it appends
repo_write_line(content, c) == <<"*", " ", "[", StrfDate(c), "]", " ">> \o content

\* MemoryRepository.parse_entries on one line: the regex
\* \*\s*\[(\d{4}-\d{2}-\d{2})\]\s*(.+)
repo_parse_line(raw) ==
  LET line == Strip(raw)
      rest == IF line = <<>> THEN <<>> ELSE LStrip(Tail(line))
  IN  IF /\ line # <<>>
         /\ Head(line) = "*"
         /\ Len(rest) >= 4
         /\ rest[1] = "["
         /\ rest[2] \in RegexDates
         /\ rest[3] = "]"
        THEN << [date |-> rest[2], content |-> LStrip(SubSeq(rest, 4, Len(rest)))] >>
        ELSE <<>>

RECURSIVE repo_parse_entries(_)
repo_parse_entries(lines) ==
  IF lines = <<>> THEN <<>>
  ELSE repo_parse_line(Head(lines)) \o repo_parse_entries(Tail(lines))

(***************************************************************************)
(* Inputs.                                                                 *)
(***************************************************************************)
\* lines found in MEMORY.md when the services are constructed over it
InitLines ==
  { <<"*", " ", "[", "2026-10-02 12:00:00", "]", " ", "[", "cat", "]", " ", "note">>,
    <<"*", " ", "[", "2026-11-01 12:00:00", "]", " ", "[", "cat", "]", " ", "note">>,
    <<"*", " ", "[", "garbage", "]", " ", "[", "cat", "]", " ", "note">>,
    <<"*", " ", "[", "2026-10-02", "]", " ", "note">>,
    <<"*", " ", "INVALID", " ", "[", "cat", "]", " ", "content">> }

Categories == {<<"cat">>}
Contents == {<<"note">>, <<" ">>}
\* timestamp=None, or a given text
TimestampArgs == {<<>>, <<"2026-10-02 12:00:00">>}
OlderThanDays == {DefaultOlderThanDays}

\* what the file system did during one call of the archive service: the
\* partitions whose append failed (ArchiveRepository.write returned False),
\* whether INDEX.md could be written, whether MEMORY.md could be opened for
\* writing.  Reads, and the writes of MemoryManager, succeed in this model.
NoFault == [append_failed |-> {}, index_ok |-> TRUE, store_ok |-> TRUE]
Faults == [append_failed : SUBSET Months, index_ok : BOOLEAN, store_ok : BOOLEAN]

RECURSIVE SeqsUpTo(_, _)
SeqsUpTo(S, n) ==
  IF n = 0 THEN {<<>>}
  ELSE LET shorter == SeqsUpTo(S, n - 1)
       IN  shorter \cup { Append(q, x) : q \in shorter, x \in S }

Init ==
  /\ store \in SeqsUpTo(InitLines, MaxInit)
  /\ archive = [m \in Months |-> <<>>]
  /\ index = [m \in {} |-> 0]
  /\ compressed = 0
  /\ clock = ClockDays[1]
  /\ result = [op |-> "init"]
  /\ env = NoFault
  /\ ops = 0
  /\ tier_input = <<>>
  /\ feedback_history = <<>>
  /\ priority_adjustments = NoAdjustments
  /\ feedback_file = NoFile
  /\ router = NoCallbacks
  /\ callbacks = <<>>
  /\ is_running = FALSE
  /\ scheduler = NewScheduler
  /\ config = DefaultConfig
  /\ jarvis_callback = "None"
  /\ job_calls = NoCalls
  /\ runs = NoRuns

\* one more call of a public operation, within the bound of the model
Call == ops < MaxOps /\ ops' = ops + 1

(***************************************************************************)
(* MemoryManager.                                                          *)
(***************************************************************************)
\* MemoryManager.write_entry(category, content, timestamp)
write_entry(category, content, timestamp) ==
  /\ Call
  /\ Len(store) < MaxStore
  /\ IF Strip(content) = <<>>
       THEN /\ result' = [op |-> "write_entry", status |-> "ValueError"]
            /\ UNCHANGED store
       ELSE LET ts == IF timestamp = <<>> THEN <<StrfDateTime(clock)>> ELSE timestamp
                entry == format_entry([timestamp |-> ts, category |-> category, content |-> content])
            IN  /\ store' = Append(store, repo_write_line(entry, clock))
                /\ result' = [op |-> "write_entry", status |-> "OK", returned |-> ts,
                              category |-> category, content |-> content]
  /\ env' = NoFault
  /\ UNCHANGED <<archive, index, compressed, clock>>
  /\ UNCHANGED otherVars

\* MemoryManager.clear_memory()
clear_memory ==
  /\ Call
  /\ store' = <<>>
  /\ result' = [op |-> "clear_memory", status |-> "OK"]
  /\ env' = NoFault
  /\ UNCHANGED <<archive, index, compressed, clock>>
  /\ UNCHANGED otherVars

(***************************************************************************)
(* CompressionService.                                                     *)
(***************************************************************************)
\* CompressionService.compress: the tiers of the parsed entries are written to
\* the read-model MEMORY_COMPRESSED.md, kept here as the number of entries it
\* was built from
compress ==
  /\ Call
  /\ LET entries == repo_parse_entries(store)
     IN  compressed' = IF entries = <<>> THEN compressed ELSE Len(entries)
  /\ result' = [op |-> "compress", status |-> "OK"]
  /\ env' = NoFault
  /\ UNCHANGED <<store, archive, index, clock>>
  /\ UNCHANGED otherVars

(***************************************************************************)
(* ArchiveService.                                                         *)
(***************************************************************************)
\* old_entries of archive_old_entries: timestamp < now - older_than_days
old_entries(entries, d, c) ==
  SelectSeq(entries, LAMBDA e : parse_timestamp(e.timestamp, c) < Now(c) - 2 * d)

\* recent_entries of archive_old_entries: timestamp >= now - older_than_days
recent_entries(entries, d, c) ==
  SelectSeq(entries, LAMBDA e : parse_timestamp(e.timestamp, c) >= Now(c) - 2 * d)

\* the update_index calls of the loop over the month groups
RECURSIVE update_index_all(_, _, _)
update_index_all(idx, ms, old) ==
  IF ms = {} THEN idx
  ELSE LET m == CHOOSE x \in ms : TRUE
       IN  update_index_all(update_index(idx, m, Len(group_by_month(old, m))), ms \ {m}, old)

\* ArchiveService.archive_old_entries(older_than_days), the file system
\* behaving as f says
archive_old_entries(d, f) ==
  LET entries == parse_memory_entries(store)
      old == old_entries(entries, d, clock)
      recent == recent_entries(entries, d, clock)
      groups == group_ids(old)
      appended == groups \ f.append_failed
  IN  IF store = <<>> \/ old = <<>>
        THEN /\ f = NoFault
             /\ result' = [op |-> "archive_old_entries", days |-> d, status |-> "OK",
                           archived_count |-> 0]
             /\ UNCHANGED <<store, archive, index>>
        ELSE /\ f.append_failed \subseteq groups
             /\ appended = {} => f.index_ok
             \* 4. group by month; append each group, then update the index
             /\ archive' = [m \in Months |->
                              IF m \in appended
                                THEN archive[m] \o append_lines(group_by_month(old, m))
                                ELSE archive[m]]
             /\ index' = IF f.index_ok THEN update_index_all(index, appended, old) ELSE index
             \* 5. replace MEMORY.md by the recent entries
             /\ store' = IF f.store_ok THEN format_entries_to_memory(recent) ELSE store
             /\ result' = [op |-> "archive_old_entries", days |-> d, status |-> "SUCCESS",
                           archived_count |-> Len(old), recent_count |-> Len(recent),
                           files_created |-> appended, memory_updated |-> f.store_ok]

ArchiveOldEntries(d) ==
  /\ Call
  /\ \E f \in Faults : archive_old_entries(d, f) /\ env' = f
  /\ UNCHANGED <<compressed, clock>>
  /\ UNCHANGED otherVars

\* ArchiveService.restore_from_archive(archive_id), the file system behaving
\* as f says
restore_from_archive(p, f) ==
  LET archived_entries == parse_memory_entries(archive[p])
      current_entries == parse_memory_entries(store)
      merged_entries == sort_by_timestamp(current_entries \o archived_entries)
  IN  IF archive[p] = <<>>
        THEN /\ f = NoFault
             /\ result' = [op |-> "restore_from_archive", archive_id |-> p, status |-> "ERROR"]
             /\ UNCHANGED store
        ELSE IF ~f.store_ok
        THEN /\ result' = [op |-> "restore_from_archive", archive_id |-> p, status |-> "ERROR"]
             /\ UNCHANGED store
        ELSE /\ Len(merged_entries) <= MaxStore
             /\ store' = format_entries_to_memory(merged_entries)
             /\ result' = [op |-> "restore_from_archive", archive_id |-> p, status |-> "SUCCESS",
                           restored_count |-> Len(archived_entries),
                           total_entries |-> Len(merged_entries)]

RestoreFromArchive(p) ==
  /\ Call
  /\ \E f \in {NoFault, [NoFault EXCEPT !.store_ok = FALSE]} : restore_from_archive(p, f) /\ env' = f
  /\ UNCHANGED <<archive, index, compressed, clock>>
  /\ UNCHANGED otherVars

\* the passing of time between two calls
Tick ==
  /\ \E i \in 1..(Len(ClockDays) - 1) : clock = ClockDays[i] /\ clock' = ClockDays[i + 1]
  /\ result' = [op |-> "tick"]
  /\ env' = NoFault
  /\ UNCHANGED <<store, archive, index, compressed, ops>>
  /\ UNCHANGED otherVars

Next ==
  \/ \E category \in Categories, content \in Contents, timestamp \in TimestampArgs :
       write_entry(category, content, timestamp)
  \/ clear_memory
  \/ compress
  \/ \E d \in OlderThanDays : ArchiveOldEntries(d)
  \/ \E p \in Months : RestoreFromArchive(p)
  \/ Tick

Spec == Init /\ [][Next]_vars

(***************************************************************************)
(* What the properties speak of.                                           *)
(***************************************************************************)
\* count(MemoryStore): the entries MEMORY.md parses into
StoreCount(lines) == Len(parse_memory_entries(lines))

RECURSIVE SumCounts(_, _)
SumCounts(arch, ms) ==
  IF ms = {} THEN 0
  ELSE LET m == CHOOSE x \in ms : TRUE
       IN  entry_count(arch[m]) + SumCounts(arch, ms \ {m})

\* count(ArchiveStore): the entries of all partitions
ArchiveCount(arch) == SumCounts(arch, Months)

\* this step is a call of archive_old_entries / restore_from_archive / write_entry
ArchiveStep == ops' # ops /\ result'.op = "archive_old_entries"
RestoreStep == ops' # ops /\ result'.op = "restore_from_archive"
WriteStep == ops' # ops /\ result'.op = "write_entry"

\* a line that does not parse into a MemoryEntry: a malformed bullet, no
\* category field, or a timestamp that is no date
Unparsable(line) ==
  \/ parse_line(line) = <<>>
  \/ ~IsIsoToken(parse_line(line)[1].timestamp)

\* an entry older than d days at noon of day c
OlderThan(e, d, c) == IsIsoToken(e.timestamp) /\ FromIso(e.timestamp) < Now(c) - 2 * d

Sorted(entries) ==
  \A i \in 1..(Len(entries) - 1) : SortKey(entries[i].timestamp) <= SortKey(entries[i + 1].timestamp)

SeqBag(q) == LET S == { q[i] : i \in 1..Len(q) }
             IN  [x \in S |-> Cardinality({ i \in 1..Len(q) : q[i] = x })]

(***************************************************************************)
(* Properties.                                                             *)
(***************************************************************************)
\* C1: conservation over one archival pass: the number of entries in the
\* store before archive_old_entries equals the number left in the store after
\* it plus the number of entries the call added to the archive partitions.
C1_Conservation ==
  [][ArchiveStep =>
       StoreCount(store) = StoreCount(store') + (ArchiveCount(archive') - ArchiveCount(archive))]_vars

\* C2: atomicity of archival: if the append for any month group fails, the
\* call leaves the MemoryStore as it was.
C2_Atomicity ==
  [][(ArchiveStep /\ env'.append_failed # {}) => store' = store]_vars

\* C3: a store line that cannot be parsed into a MemoryEntry is, after
\* archive_old_entries, still present in the store and absent from every
\* archive partition.
C3_UnparsableKept ==
  [][ArchiveStep =>
       \A i \in 1..Len(store) :
         Unparsable(store[i]) =>
           /\ \E j \in 1..Len(store') : store'[j] = store[i]
           /\ \A m \in Months : \A k \in 1..Len(archive'[m]) : archive'[m][k] # store[i]]_vars

\* C4: over every public memory operation count(MemoryStore) +
\* count(ArchiveStore) never decreases.
C4_TotalNeverDecreases ==
  [][StoreCount(store') + ArchiveCount(archive') >= StoreCount(store) + ArchiveCount(archive)]_vars

\* C5: archive_old_entries(d) splits the parsed entries exactly by age: the
\* entries older than d days are appended to the partition of their own month
\* and leave the store, the others stay, and the result reports
\* archived_count = number of old entries and recent_count = number retained.
C5_SplitByAge ==
  [][ArchiveStep =>
       LET entries == parse_memory_entries(store)
           d == result'.days
           old == SelectSeq(entries, LAMBDA e : OlderThan(e, d, clock))
           kept == SelectSeq(entries, LAMBDA e : ~OlderThan(e, d, clock))
       IN  /\ parse_memory_entries(store') = kept
           /\ \A m \in Months :
                archive'[m] = archive[m] \o
                  [i \in 1..Len(SelectSeq(old, LAMBDA e : Calendar[CalOfToken(e.timestamp[1])].month = m))
                     |-> format_entry(SelectSeq(old, LAMBDA e : Calendar[CalOfToken(e.timestamp[1])].month = m)[i])]
           /\ result'.archived_count = Len(old)
           /\ "recent_count" \in DOMAIN result' => result'.recent_count = Len(kept)]_vars

\* C6: idempotence of archival: a second archive_old_entries(21) right after
\* a first one, nothing written in between, reports archived_count = 0 and
\* appends nothing to any partition.
C6_Idempotent ==
  [][(/\ result.op = "archive_old_entries"
      /\ result.days = DefaultOlderThanDays
      /\ ArchiveStep
      /\ result'.days = DefaultOlderThanDays)
       => result'.archived_count = 0 /\ archive' = archive]_vars

\* C7: storage failures during archival are surfaced: if a partition append,
\* an index update or the store rewrite fails, the result's status is not
\* SUCCESS and archived_count counts no entry that was not written to an
\* archive.
C7_FailureSurfaced ==
  [][(ArchiveStep /\ env' # NoFault) =>
       /\ result'.status # "SUCCESS"
       /\ "archived_count" \in DOMAIN result' =>
            result'.archived_count <= ArchiveCount(archive') - ArchiveCount(archive)]_vars

C9_WriteRoundTrip ==
  [][(WriteStep /\ result'.status = "OK") =>
       LET written == [timestamp |-> result'.returned, category |-> result'.category,
                       content |-> result'.content]
           after == parse_memory_entries(store')
       IN  /\ store' = Append(store, format_entry(written))
           /\ after # <<>>
           /\ after[Len(after)] = written]_vars

\* C10: the index is a summary of the partitions: for every partition the
\* entry_count recorded in the index equals the number of entries in the
\* partition's file.
C10_IndexMatchesPartitions ==
  \A m \in Months :
    (archive[m] # <<>> \/ m \in DOMAIN index) =>
      m \in DOMAIN index /\ index[m] = entry_count(archive[m])

(***************************************************************************)
(* CompressionService: tier_entries and summarize_tier.                    *)
(*                                                                         *)
(* An entry is a dict: a record that may or may not have the keys date,    *)
(* category and content.  The caller's now is the clock day at midnight    *)
(* (time of day 0) or at noon (time of day 1).                             *)
(***************************************************************************)
MaxTier == 3
DefaultPreserveRecent == 7
DefaultWarmDays == 14

\* entry.get("date", "")
get_date(entry) == IF "date" \in DOMAIN entry THEN entry.date ELSE ""
\* entry.get("date", "?")
get_date_shown(entry) == IF "date" \in DOMAIN entry THEN entry.date ELSE "?"
\* entry.get("category", "other")
get_category(entry) == IF "category" \in DOMAIN entry THEN entry.category ELSE "other"
\* entry.get("content", "")
get_content(entry) == IF "content" \in DOMAIN entry THEN entry.content ELSE <<>>

\* datetime.strptime(date_str, "%Y-%m-%d") raises ValueError unless the text
\* is a date of the calendar; its value is the midnight of that date
strptime_ok(date_str) == date_str \in DateTokens
strptime(date_str) == 2 * Calendar[CalOfToken(date_str)].day

\* one round of the loop of tier_entries, with a bad date counted as cold
tier_of_bad_date_cold(entry, preserve_recent, warm_days, now) ==
  LET date_str == get_date(entry)
      hot_cutoff == now - 2 * preserve_recent
      warm_cutoff == now - 2 * warm_days
  IN  IF ~strptime_ok(date_str) THEN "cold"
      ELSE IF strptime(date_str) > hot_cutoff THEN "hot"
      ELSE IF strptime(date_str) > warm_cutoff THEN "warm"
      ELSE "cold"

\* one round of the loop of tier_entries: the list the entry is appended to
tier_of(entry, preserve_recent, warm_days, now) ==
  LET date_str == get_date(entry)
      hot_cutoff == now - 2 * preserve_recent
      warm_cutoff == now - 2 * warm_days
  IN  IF ~strptime_ok(date_str) THEN "warm"
      ELSE IF strptime(date_str) > hot_cutoff THEN "hot"
      ELSE IF strptime(date_str) > warm_cutoff THEN "warm"
      ELSE "cold"

RECURSIVE tier_loop(_, _, _, _, _)
tier_loop(es, preserve_recent, warm_days, now, acc) ==
  IF es = <<>> THEN acc
  ELSE LET t == tier_of(Head(es), preserve_recent, warm_days, now)
       IN  tier_loop(Tail(es), preserve_recent, warm_days, now,
                     [acc EXCEPT ![t] = Append(@, Head(es))])

\* CompressionService.tier_entries(entries, preserve_recent, warm_days)
tier_entries(es, preserve_recent, warm_days, now) ==
  tier_loop(es, preserve_recent, warm_days, now,
            [hot |-> <<>>, warm |-> <<>>, cold |-> <<>>])

\* str.title() on the category names of the model
Title(category) ==
  CASE category = "cat" -> "Cat"
    [] category = "other" -> "Other"
    [] OTHER -> category

\* one line "* [date] content" of _format_entries and of _extract_key_points
key_point_line(entry) == <<"*", " ", "[", get_date_shown(entry), "]", " ">> \o get_content(entry)

\* CompressionService._format_entries
format_entries(es) == [i \in 1..Len(es) |-> key_point_line(es[i])]

\* the keys of by_category, in the order of their first entry
RECURSIVE by_category_keys(_, _)
by_category_keys(es, seen) ==
  IF es = <<>> THEN seen
  ELSE LET c == get_category(Head(es))
       IN  by_category_keys(Tail(es),
             IF \E i \in 1..Len(seen) : seen[i] = c THEN seen ELSE Append(seen, c))

\* the lines _extract_key_points writes for one category
category_lines(category, cat_entries) ==
  LET n == Len(cat_entries)
  IN  << <<"##", " ", Title(category)>> >>
      \o (IF n > 1
            THEN << key_point_line(cat_entries[1]) >>
                 \o (IF n > 2 THEN << <<"...", n - 2>> >> ELSE <<>>)
                 \o << key_point_line(cat_entries[n]) >>
            ELSE << key_point_line(cat_entries[1]) >>)

RECURSIVE key_points_from(_, _)
key_points_from(keys, es) ==
  IF keys = <<>> THEN <<>>
  ELSE category_lines(Head(keys), SelectSeq(es, LAMBDA e : get_category(e) = Head(keys)))
       \o key_points_from(Tail(keys), es)

\* CompressionService._extract_key_points(entries, mode)
extract_key_points(es, mode) == key_points_from(by_category_keys(es, <<>>), es)

\* the llm_provider handed to summarize_tier: None, an object without a
\* summarize method, one whose summarize returns a text, one whose summarize
\* raises (the model is unreachable, the call times out)
Providers == {"None", "no_summarize", "summarizes", "raises"}
has_summarize(llm_provider) == llm_provider \in {"summarizes", "raises"}
Modes == {"warm", "cold"}

\* CompressionService.summarize_tier(entries, mode, llm_provider): what it
\* returns, or the error it raises
summarize_tier(es, mode, llm_provider) ==
  IF es = <<>> THEN [status |-> "OK", summary |-> <<>>]
  ELSE IF llm_provider # "None" /\ has_summarize(llm_provider)
    THEN IF llm_provider = "raises"
           THEN [status |-> "MemoryError", summary |-> <<>>]
           ELSE [status |-> "OK", summary |-> << <<"summary of", mode, format_entries(es)>> >>]
    ELSE [status |-> "OK", summary |-> extract_key_points(es, mode)]

(***************************************************************************)
(* The entry lists the tier operations are called with, and their calls.   *)
(***************************************************************************)
TierEntries ==
  { [date |-> "2026-10-26", content |-> <<"note">>],
    [date |-> "2026-10-25", content |-> <<"note">>],
    [date |-> "2026-10-24", content |-> <<"note">>],
    [date |-> "2026-10-18", content |-> <<"note">>],
    [date |-> "2026-10-17", content |-> <<"note">>],
    [date |-> "2026-10-25", category |-> "cat", content |-> <<"note">>],
    [date |-> "INVALID", content |-> <<"note">>],
    [date |-> "2026-13-45", content |-> <<"note">>],
    [content |-> <<"note">>] }

PreserveRecentArgs == {DefaultPreserveRecent, DefaultPreserveRecent + 1}
WarmDaysArgs == {DefaultWarmDays}
TimesOfDay == {0, 1}

TierInit ==
  /\ tier_input \in SeqsUpTo(TierEntries, MaxTier)
  /\ store = <<>>
  /\ archive = [m \in Months |-> <<>>]
  /\ index = [m \in {} |-> 0]
  /\ compressed = 0
  /\ clock = ClockDays[1]
  /\ result = [op |-> "init"]
  /\ env = NoFault
  /\ ops = 0
  /\ feedback_history = <<>>
  /\ priority_adjustments = NoAdjustments
  /\ feedback_file = NoFile
  /\ router = NoCallbacks
  /\ callbacks = <<>>
  /\ is_running = FALSE
  /\ scheduler = NewScheduler
  /\ config = DefaultConfig
  /\ jarvis_callback = "None"
  /\ job_calls = NoCalls
  /\ runs = NoRuns

\* a call of tier_entries at time of day tod
TierEntriesCall(preserve_recent, warm_days, tod) ==
  /\ LET now == 2 * clock + tod
         tiers == tier_entries(tier_input, preserve_recent, warm_days, now)
     IN  result' = [op |-> "tier_entries", preserve_recent |-> preserve_recent,
                    warm_days |-> warm_days, now |-> now,
                    hot |-> tiers.hot, warm |-> tiers.warm, cold |-> tiers.cold]
  /\ UNCHANGED <<store, archive, index, compressed, clock, env, ops, tierVars, engineVars, schedVars, concVars>>

\* a call of summarize_tier
SummarizeTierCall(mode, llm_provider) ==
  /\ LET r == summarize_tier(tier_input, mode, llm_provider)
     IN  result' = [op |-> "summarize_tier", mode |-> mode, llm_provider |-> llm_provider,
                    status |-> r.status, summary |-> r.summary]
  /\ UNCHANGED <<store, archive, index, compressed, clock, env, ops, tierVars, engineVars, schedVars, concVars>>

TierNext ==
  \/ \E p \in PreserveRecentArgs, w \in WarmDaysArgs, tod \in TimesOfDay : TierEntriesCall(p, w, tod)
  \/ \E mode \in Modes, llm_provider \in Providers : SummarizeTierCall(mode, llm_provider)

TierSpec == TierInit /\ [][TierNext]_vars

(***************************************************************************)
(* Properties of the tier operations.                                      *)
(***************************************************************************)
\* the age of a dated entry in whole days, as (now - entry_date).days
AgeDays(entry, now) == (now - strptime(get_date(entry))) \div 2
InList(entry, list) == \E i \in 1..Len(list) : list[i] = entry
BadDate(entry) == ~strptime_ok(get_date(entry))

\* C11: tier_entries puts an entry whose age is at most preserve_recent days
\* in Hot (so one aged exactly preserve_recent days is Hot), one older than
\* that and at most warm_days old in Warm (so one aged preserve_recent + 1
\* days is Warm), and one older than warm_days in Cold.
C11_TierBoundary ==
  result.op = "tier_entries" =>
    \A i \in 1..Len(tier_input) :
      LET e == tier_input[i]
      IN  ~BadDate(e) =>
            LET age == AgeDays(e, result.now)
            IN  /\ age <= result.preserve_recent => InList(e, result.hot)
                /\ (result.preserve_recent < age /\ age <= result.warm_days)
                     => InList(e, result.warm)
                /\ age > result.warm_days => InList(e, result.cold)

\* C12: the three lists tier_entries returns hold together exactly the
\* entries it was given, each entry as often as it was given, and every entry
\* whose date does not parse is in Warm and in no other list.
C12_TierPartition ==
  result.op = "tier_entries" =>
    /\ Len(result.hot) + Len(result.warm) + Len(result.cold) = Len(tier_input)
    /\ SeqBag(result.hot) (+) SeqBag(result.warm) (+) SeqBag(result.cold) = SeqBag(tier_input)
    /\ \A i \in 1..Len(tier_input) :
         BadDate(tier_input[i]) =>
           /\ InList(tier_input[i], result.warm)
           /\ ~InList(tier_input[i], result.hot)
           /\ ~InList(tier_input[i], result.cold)

\* a call that filled all three tiers, Warm with an entry whose date does not
\* parse
C12_Witness ==
  /\ result.op = "tier_entries"
  /\ result.hot # <<>> /\ result.cold # <<>>
  /\ \E i \in 1..Len(result.warm) : BadDate(result.warm[i])

\* C13: summarize_tier on a non-empty list, with no summarizer, or one that
\* has no summarize method, or one that cannot produce a summary, returns the
\* key-point extract and raises nothing.
C13_SummarizerFallback ==
  (/\ result.op = "summarize_tier"
   /\ tier_input # <<>>
   /\ result.llm_provider \in {"None", "no_summarize", "raises"})
    => /\ result.status = "OK"
       /\ result.summary = extract_key_points(tier_input, result.mode)

(***************************************************************************)
(* The floating-point numbers of the priority engine.                      *)
(*                                                                         *)
(* Every number the engine computes is a double within a hair of a         *)
(* multiple of 0.1.  The double x is kept exactly, as the record           *)
(* [n |-> n, e |-> e] with x = n/10 + e * 2^-56/10: n is the number of     *)
(* tenths, e the representation error.  The literal 0.3 is the double      *)
(* 3/10 - 8 * 2^-56/10, 0.2 is 2/10 + 8 units, 0.1 is 1/10 + 4 units, 0.5  *)
(* and the whole numbers are exact.  An operation computes the exact       *)
(* result and rounds it to the nearest double, ties to the even mantissa.  *)
(***************************************************************************)
Dbl(n, e) == [n |-> n, e |-> e]
FromInt(k) == Dbl(10 * k, 0)
Lit01 == Dbl(1, 4)
Lit02 == Dbl(2, 8)
Lit03 == Dbl(3, -8)
Lit05 == Dbl(5, 0)

\* n/10 + e units lies below t/10
Below(n, e, t) == n < t \/ (n = t /\ e < 0)

\* for a positive value in the binade [2^k, 2^(k+1)), -3 <= k <= 4: the pair
\* of 2^(k+4), a tenth of the spacing of the doubles there in units, and of
\* 2^(52-k) mod 20
Binade(n, e) ==
  IF Below(n, e, 5) THEN (IF n = 2 THEN <<2, 8>> ELSE <<4, 4>>)
  ELSE IF Below(n, e, 10) THEN <<8, 12>>
  ELSE IF Below(n, e, 20) THEN <<16, 16>>
  ELSE IF Below(n, e, 40) THEN <<32, 8>>
  ELSE IF Below(n, e, 80) THEN <<64, 4>>
  ELSE IF Below(n, e, 160) THEN <<128, 12>>
  ELSE <<256, 16>>

\* the double nearest to the exact value n/10 + e units, for a value >= 0;
\* below 0.125 every value that arises is a double
RoundPos(n, e) ==
  IF n <= 1 THEN Dbl(n, e)
  ELSE LET b == Binade(n, e)
           G == 10 * b[1]
           R2 == (b[1] * ((n * b[2]) % 20) + e) % (2 * G)
           r == R2 % G
           odd == R2 >= G
       IN  IF r = 0 THEN Dbl(n, e)
           ELSE IF 2 * r < G \/ (2 * r = G /\ ~odd) THEN Dbl(n, e - r)
           ELSE Dbl(n, e + G - r)

RoundToDouble(n, e) ==
  IF n < 0 THEN LET p == RoundPos(-n, -e) IN Dbl(-p.n, -p.e) ELSE RoundPos(n, e)

\* x + y on floats
FAdd(x, y) == RoundToDouble(x.n + y.n, x.e + y.e)
\* k * x, k an int and x a float
FMulInt(k, x) == RoundToDouble(k * x.n, k * x.e)
\* x < y on floats
FLess(x, y) == x.n < y.n \/ (x.n = y.n /\ x.e < y.e)
\* max(lo, min(hi, x)) on floats
FClamp(x, lo, hi) == IF FLess(hi, x) THEN hi ELSE IF FLess(x, lo) THEN lo ELSE x

\* round(x) of a float: the nearest int, a half going to the even one
PyRound(x) ==
  LET q == x.n \div 10
      m == x.n % 10
  IN  IF m < 5 THEN q
      ELSE IF m > 5 THEN q + 1
      ELSE IF x.e < 0 THEN q
      ELSE IF x.e > 0 THEN q + 1
      ELSE IF q % 2 = 0 THEN q ELSE q + 1

(***************************************************************************)
(* Priority and PriorityEvaluator.                                         *)
(***************************************************************************)
DecisionTypes == {"autonomous", "suggest", "interrupt"}

\* PriorityEvaluator.PRIORITY_MATRIX
PRIORITY_MATRIX ==
  [task \in {"log_rotation", "duplicate_removal", "memory_compression", "sentinel_check",
             "system_optimization", "error_recovery", "security_alert",
             "resource_exhaustion", "user_input"} |->
     CASE task \in {"log_rotation", "duplicate_removal"} -> 2
       [] task \in {"memory_compression", "system_optimization"} -> 5
       [] task = "sentinel_check" -> 6
       [] task = "error_recovery" -> 8
       [] task \in {"security_alert", "resource_exhaustion"} -> 10
       [] task = "user_input" -> 7]

\* Priority.__post_init__ left out: the decision type the caller supplied
post_init_omitted(level, decision_type) == decision_type

\* Priority.__post_init__: the decision type of a level
post_init(level, decision_type) ==
  IF level <= 4 THEN "autonomous"
  ELSE IF level <= 9 THEN "suggest"
  ELSE "interrupt"

\* Priority(task, level, category, ..., decision_type)
Priority(task, level, category, decision_type) ==
  [task |-> task, level |-> level, category |-> category,
   decision_type |-> post_init(level, decision_type)]

\* the clamp of evaluate left out
clamp_level_omitted(level) == level

\* max(1, min(10, level))
clamp_level(level) == IF level > 10 THEN 10 ELSE IF level < 1 THEN 1 ELSE level

\* self.priority_adjustments.get(task, 0.0)
get_adjustment(adjustments, task) ==
  IF task \in DOMAIN adjustments THEN adjustments[task] ELSE FromInt(0)

\* the float evaluate rounds: base, then the urgency, impact, blocking and
\* learned terms added one after the other
raw_priority(task, urgency, impact, blocked_count, adjustments) ==
  LET base_priority == IF task \in DOMAIN PRIORITY_MATRIX THEN PRIORITY_MATRIX[task] ELSE 5
      p1 == FAdd(FromInt(base_priority), FMulInt(urgency - 5, Lit03))
      p2 == FAdd(p1, FMulInt(impact - 5, Lit02))
      p3 == FAdd(p2, FMulInt(blocked_count, Lit05))
  IN  FAdd(p3, get_adjustment(adjustments, task))

\* PriorityEvaluator.evaluate(task, category, urgency, impact, blocked_count)
evaluate(task, category, urgency, impact, blocked_count, adjustments) ==
  Priority(task,
           clamp_level(PyRound(raw_priority(task, urgency, impact, blocked_count, adjustments))),
           category, "autonomous")

\* the learning rule of record_feedback with "ignored" counted for
\* suggestions only
feedback_delta_suggest_only(decision_type, user_action) ==
  IF user_action = "rejected" /\ decision_type = "suggest" THEN FMulInt(-1, Lit03)
  ELSE IF user_action = "accepted" /\ decision_type = "suggest" THEN Lit01
  ELSE IF user_action = "ignored" /\ decision_type = "suggest" THEN FMulInt(-1, Lit05)
  ELSE FromInt(0)

\* the learning rule of record_feedback: the local adjustment
feedback_delta(decision_type, user_action) ==
  IF user_action = "rejected" /\ decision_type = "suggest" THEN FMulInt(-1, Lit03)
  ELSE IF user_action = "accepted" /\ decision_type = "suggest" THEN Lit01
  ELSE IF user_action = "ignored" THEN FMulInt(-1, Lit05)
  ELSE FromInt(0)

\* the clamp of record_feedback left out
clamp_adjustment_omitted(x) == x

\* max(-1.0, min(1.0, x))
clamp_adjustment(x) == FClamp(x, FromInt(-1), FromInt(1))

\* the adjustment table after record_feedback(task, ..)
apply_adjustment(adjustments, task, delta) ==
  [t \in DOMAIN adjustments \cup {task} |->
     IF t = task THEN clamp_adjustment(FAdd(get_adjustment(adjustments, task), delta))
     ELSE adjustments[t]]

\* FeedbackEntry(task, priority_level, decision_type, user_action)
FeedbackEntry(task, priority_level, decision_type, user_action) ==
  [task |-> task, priority_level |-> priority_level, decision_type |-> decision_type,
   user_action |-> user_action]

\* PriorityEvaluator._save_feedback_history: the feedback file afterwards.
\* The write succeeds ("saved"), or fails before the file is opened
\* ("unchanged"), or fails after open(.., "w") emptied it ("truncated").
SaveOutcomes == {"saved", "unchanged", "truncated"}
save_feedback_history(file, history, adjustments, outcome) ==
  IF ~file.configured \/ outcome = "unchanged" THEN file
  ELSE IF outcome = "truncated"
    THEN [configured |-> TRUE, state |-> "corrupt", feedback |-> <<>>, adjustments |-> NoAdjustments]
  ELSE [configured |-> TRUE, state |-> "ok", feedback |-> history, adjustments |-> adjustments]

\* _load_feedback_history reading the feedback and not the adjustments
load_feedback_history_without_adjustments(file) ==
  IF file.configured /\ file.state = "ok"
    THEN [feedback_history |-> file.feedback, priority_adjustments |-> NoAdjustments]
    ELSE [feedback_history |-> <<>>, priority_adjustments |-> NoAdjustments]

\* PriorityEvaluator.__init__ with _load_feedback_history: the fields of an
\* evaluator built over the file; a file that does not parse leaves them empty
load_feedback_history(file) ==
  IF file.configured /\ file.state = "ok"
    THEN [feedback_history |-> file.feedback, priority_adjustments |-> file.adjustments]
    ELSE [feedback_history |-> <<>>, priority_adjustments |-> NoAdjustments]

(***************************************************************************)
(* DecisionRouter.route, in two steps: the body up to and including the    *)
(* call of the callback, then the return statement.                        *)
(***************************************************************************)
\* route calling on_suggest for every priority that is not autonomous
callback_of_suggest_only(p, r) ==
  IF p.decision_type # "autonomous" /\ r.on_suggest
    THEN << [callback |-> "on_suggest", priority |-> p] >>
    ELSE <<>>

\* the callback route invokes for a priority, if the router has it
callback_of(p, r) ==
  IF p.decision_type = "suggest" /\ r.on_suggest THEN << [callback |-> "on_suggest", priority |-> p] >>
  ELSE IF p.decision_type = "interrupt" /\ r.on_critical THEN << [callback |-> "on_critical", priority |-> p] >>
  ELSE <<>>

\* the DecisionType route returns
route_returns(p) ==
  IF p.decision_type \in DecisionTypes THEN p.decision_type ELSE "autonomous"

(***************************************************************************)
(* The calls made to the priority engine.                                  *)
(***************************************************************************)
MaxFeedback == 3

Tasks == {"log_rotation", "security_alert", "fresh_task"}
\* urgency, impact and blocked_count of a call of evaluate: the defaults, the
\* lowest values, two mixed ones and one blocked task
EvaluateArgs == { <<5, 5, 0>>, <<1, 1, 0>>, <<6, 1, 0>>, <<9, 10, 0>>, <<5, 5, 1>> }
EngineCategories == {"security"}
\* task, decision_type and user_action of a call of record_feedback
FeedbackArgs == { <<"fresh_task", "autonomous", "ignored">>,
                  <<"fresh_task", "suggest", "accepted">>,
                  <<"log_rotation", "suggest", "rejected">>,
                  <<"log_rotation", "autonomous", "rejected">> }
FeedbackLevels == {5}

\* the adjustment table of a process that recorded the feedbacks of history
RECURSIVE replay(_)
replay(history) ==
  IF history = <<>> THEN NoAdjustments
  ELSE LET last == history[Len(history)]
       IN  apply_adjustment(replay(SubSeq(history, 1, Len(history) - 1)), last.task,
                            feedback_delta(last.decision_type, last.user_action))

\* the feedback file an earlier process left: it recorded EarlierAccepted
\* accepted suggestions of one task
EarlierAccepted == 10
EarlierHistory ==
  [i \in 1..EarlierAccepted |-> FeedbackEntry("fresh_task", 5, "suggest", "accepted")]
EarlierFile ==
  [configured |-> TRUE, state |-> "ok", feedback |-> EarlierHistory,
   adjustments |-> replay(EarlierHistory)]

Routing == result.op = "route" /\ result.phase = "running"

\* a PriorityEvaluator is built: without a feedback file, over a file that does
\* not exist yet, or over the file an earlier process left
EngineInit ==
  /\ feedback_file \in {NoFile, [NoFile EXCEPT !.configured = TRUE], EarlierFile}
  /\ feedback_history = load_feedback_history(feedback_file).feedback_history
  /\ priority_adjustments = load_feedback_history(feedback_file).priority_adjustments
  /\ router = NoCallbacks
  /\ callbacks = <<>>
  /\ result = [op |-> "init"]
  /\ store = <<>>
  /\ archive = [m \in Months |-> <<>>]
  /\ index = [m \in {} |-> 0]
  /\ compressed = 0
  /\ clock = ClockDays[1]
  /\ env = NoFault
  /\ ops = 0
  /\ tier_input = <<>>
  /\ is_running = FALSE
  /\ scheduler = NewScheduler
  /\ config = DefaultConfig
  /\ jarvis_callback = "None"
  /\ job_calls = NoCalls
  /\ runs = NoRuns

\* PriorityEvaluator.evaluate(task, category, urgency, impact, blocked_count)
Evaluate(task, category, urgency, impact, blocked_count) ==
  /\ ~Routing
  /\ result' = [op |-> "evaluate", task |-> task, urgency |-> urgency, impact |-> impact,
                blocked_count |-> blocked_count,
                priority |-> evaluate(task, category, urgency, impact, blocked_count,
                                      priority_adjustments)]
  /\ UNCHANGED <<store, archive, index, compressed, clock, env, ops, tierVars, engineVars, schedVars, concVars>>

\* PriorityEvaluator.record_feedback(task, priority_level, decision_type,
\* user_action), the write of the feedback file ending as outcome says; ops
\* counts the calls
RecordFeedback(task, priority_level, decision_type, user_action, outcome) ==
  /\ ops < MaxFeedback
  /\ ops' = ops + 1
  /\ LET adjustment == feedback_delta(decision_type, user_action)
     IN  /\ feedback_history' = Append(feedback_history,
                                 FeedbackEntry(task, priority_level, decision_type, user_action))
         /\ priority_adjustments' = apply_adjustment(priority_adjustments, task, adjustment)
         /\ feedback_file' = save_feedback_history(feedback_file, feedback_history',
                                                   priority_adjustments', outcome)
         /\ result' = [op |-> "record_feedback", task |-> task, returned |-> adjustment,
                       outcome |-> outcome]
  /\ UNCHANGED <<store, archive, index, compressed, clock, env, tierVars, router, callbacks,
                 schedVars, concVars>>

\* the process ends and a new PriorityEvaluator is built over the same file
Restart ==
  /\ LET loaded == load_feedback_history(feedback_file)
     IN  /\ feedback_history' = loaded.feedback_history
         /\ priority_adjustments' = loaded.priority_adjustments
  /\ result' = [op |-> "restart"]
  /\ UNCHANGED <<store, archive, index, compressed, clock, env, ops, tierVars,
                 feedback_file, router, callbacks, schedVars, concVars>>

EngineNext ==
  \/ \E task \in Tasks, category \in EngineCategories, args \in EvaluateArgs :
       Evaluate(task, category, args[1], args[2], args[3])
  \/ \E priority_level \in FeedbackLevels, args \in FeedbackArgs, outcome \in SaveOutcomes :
       RecordFeedback(args[1], priority_level, args[2], args[3], outcome)
  \/ Restart

EngineSpec == EngineInit /\ [][EngineNext]_vars

(***************************************************************************)
(* The calls made to a decision router: a priority comes from evaluate, on *)
(* an evaluator that has learned nothing, or is built by the caller.       *)
(***************************************************************************)
Routers == [on_suggest : BOOLEAN, on_critical : BOOLEAN]
RouteLevels == {1, 4, 5, 9, 10}

RouterInit ==
  /\ router \in Routers
  /\ callbacks = <<>>
  /\ result = [op |-> "init"]
  /\ feedback_history = <<>>
  /\ priority_adjustments = NoAdjustments
  /\ feedback_file = NoFile
  /\ store = <<>>
  /\ archive = [m \in Months |-> <<>>]
  /\ index = [m \in {} |-> 0]
  /\ compressed = 0
  /\ clock = ClockDays[1]
  /\ env = NoFault
  /\ ops = 0
  /\ tier_input = <<>>
  /\ is_running = FALSE
  /\ scheduler = NewScheduler
  /\ config = DefaultConfig
  /\ jarvis_callback = "None"
  /\ job_calls = NoCalls
  /\ runs = NoRuns

\* DecisionRouter.route(priority) up to the call of the callback; callbacks
\* holds the calls made during the latest call of route
route(p, supplied) ==
  /\ ~Routing
  /\ callbacks' = callback_of(p, router)
  /\ result' = [op |-> "route", phase |-> "running", priority |-> p, supplied |-> supplied]
  /\ UNCHANGED <<store, archive, index, compressed, clock, env, ops, tierVars,
                 feedback_history, priority_adjustments, feedback_file, router,
                 schedVars, concVars>>

\* route on the priority evaluate has just returned
RouteEvaluated ==
  /\ result.op = "evaluate"
  /\ route(result.priority, "autonomous")

\* route on a priority the caller builds
RouteBuilt(task, level, category, decision_type) ==
  route(Priority(task, level, category, decision_type), decision_type)

\* the return statement of route
RouteReturn ==
  /\ Routing
  /\ result' = [op |-> "route", phase |-> "returned", priority |-> result.priority,
                supplied |-> result.supplied, returned |-> route_returns(result.priority)]
  /\ UNCHANGED <<store, archive, index, compressed, clock, env, ops, tierVars, engineVars, schedVars, concVars>>

RouterNext ==
  \/ \E task \in Tasks, category \in EngineCategories, args \in EvaluateArgs :
       Evaluate(task, category, args[1], args[2], args[3])
  \/ RouteEvaluated
  \/ \E task \in Tasks, level \in RouteLevels, category \in EngineCategories,
        decision_type \in DecisionTypes :
       RouteBuilt(task, level, category, decision_type)
  \/ RouteReturn

RouterSpec == RouterInit /\ [][RouterNext]_vars

(***************************************************************************)
(* Properties of the priority engine.                                      *)
(***************************************************************************)
\* C14: whatever the task, the urgency, the impact, the number of blocked
\* tasks and the adjustments learned so far, the level evaluate returns is an
\* integer from 1 to 10.
C14_ScoreBounds ==
  result.op = "evaluate" => result.priority.level \in 1..10

\* evaluate on an evaluator that has learned an adjustment, the rounded sum
\* lying below 1
C14_Witness ==
  /\ result.op = "evaluate"
  /\ result.task \in DOMAIN priority_adjustments
  /\ priority_adjustments[result.task] # FromInt(0)
  /\ PyRound(raw_priority(result.task, result.urgency, result.impact,
                          result.blocked_count, priority_adjustments)) < 1

\* base + 0.3*(urgency-5) + 0.2*(impact-5) + 0.5*blocked_count + adjustment as
\* a number: its tenths, and the representation error of the adjustment
ExactScore(task, urgency, impact, blocked_count, adjustments) ==
  LET base == IF task \in DOMAIN PRIORITY_MATRIX THEN PRIORITY_MATRIX[task] ELSE 5
      adjustment == get_adjustment(adjustments, task)
  IN  Dbl(10 * base + 3 * (urgency - 5) + 2 * (impact - 5) + 5 * blocked_count + adjustment.n,
          adjustment.e)

\* C15: for urgency and impact from 1 to 10, blocked_count >= 0 and an
\* adjustment within [-1.0, 1.0], the level evaluate returns is the number
\* base + 0.3*(urgency-5) + 0.2*(impact-5) + 0.5*blocked_count + adjustment,
\* base being the matrix entry of the task or 5, clamped to [1, 10] and then
\* rounded to the nearest integer; and evaluate("security_alert", "security",
\* 9, 10, 0) returns level 10.
C15_LevelFormula ==
  (/\ result.op = "evaluate"
   /\ result.urgency \in 1..10 /\ result.impact \in 1..10 /\ result.blocked_count >= 0)
    => /\ result.priority.level =
            PyRound(FClamp(ExactScore(result.task, result.urgency, result.impact,
                                      result.blocked_count, priority_adjustments),
                           FromInt(1), FromInt(10)))
       /\ (/\ result.task = "security_alert" /\ result.urgency = 9
           /\ result.impact = 10 /\ result.blocked_count = 0
           /\ priority_adjustments = NoAdjustments) => result.priority.level = 10

\* C16: in the Priority evaluate returns and in the Priority route is handed,
\* the decision type is autonomous exactly for the levels 1 to 4, suggest
\* exactly for 5 to 9 and interrupt exactly for 10, whatever decision type the
\* Priority was built with.
C16_DecisionFromLevel ==
  result.op \in {"evaluate", "route"} =>
    LET p == result.priority
    IN  /\ p.decision_type = "autonomous" <=> p.level \in 1..4
        /\ p.decision_type = "suggest" <=> p.level \in 5..9
        /\ p.decision_type = "interrupt" <=> p.level = 10

\* route was handed a Priority of level 4 that its caller built as interrupt
C16_Witness ==
  /\ result.op = "route"
  /\ result.priority.level = 4
  /\ result.supplied = "interrupt"

\* -1.0 <= x <= 1.0
InUnit(x) == ~FLess(x, FromInt(-1)) /\ ~FLess(FromInt(1), x)
Ignored(task) == FeedbackEntry(task, 5, "autonomous", "ignored")

\* C17: after any sequence of record_feedback calls and restarts of the
\* evaluator from its feedback file, every adjustment of the table, and of the
\* file, lies in [-1.0, 1.0]; an evaluator whose whole history is three
\* ignored feedbacks of one task holds exactly -1.0 for it.
C17_AdjustmentBound ==
  /\ \A task \in DOMAIN priority_adjustments : InUnit(priority_adjustments[task])
  /\ \A task \in DOMAIN feedback_file.adjustments : InUnit(feedback_file.adjustments[task])
  /\ feedback_history = <<Ignored("fresh_task"), Ignored("fresh_task"), Ignored("fresh_task")>>
       => priority_adjustments["fresh_task"] = FromInt(-1)

\* three ignored feedbacks of a fresh task have been recorded
C17_Witness ==
  /\ feedback_history = <<Ignored("fresh_task"), Ignored("fresh_task"), Ignored("fresh_task")>>
  /\ priority_adjustments["fresh_task"] = FromInt(-1)

\* a step of record_feedback
RecordStep == ops' = ops + 1 /\ result'.op = "record_feedback"

\* the delta the rule names for a decision type and a user action
RuleDelta(decision_type, user_action) ==
  CASE user_action = "rejected" /\ decision_type = "suggest" -> FMulInt(-1, Lit03)
    [] user_action = "accepted" /\ decision_type = "suggest" -> Lit01
    [] user_action = "ignored" -> FMulInt(-1, Lit05)
    [] OTHER -> FromInt(0)

\* C18: record_feedback(task, level, decisionType, userAction) appends one
\* record of its arguments to the history and leaves the earlier records as
\* they were; it returns the delta of the rule (-0.3 for rejected with
\* suggest, +0.1 for accepted with suggest, -0.5 for ignored, 0 otherwise);
\* the adjustment of the task becomes its old value, 0 if it had none, plus
\* the delta, clamped to [-1.0, 1.0]; no other adjustment changes.
C18_FeedbackRule ==
  [][RecordStep =>
       LET entry == feedback_history'[Len(feedback_history')]
           task == result'.task
           delta == RuleDelta(entry.decision_type, entry.user_action)
       IN  /\ feedback_history' = Append(feedback_history, entry)
           /\ entry.task = task
           /\ result'.returned = delta
           /\ DOMAIN priority_adjustments' = DOMAIN priority_adjustments \cup {task}
           /\ priority_adjustments'[task] =
                FClamp(FAdd(get_adjustment(priority_adjustments, task), delta),
                       FromInt(-1), FromInt(1))
           /\ \A other \in DOMAIN priority_adjustments :
                other # task => priority_adjustments'[other] = priority_adjustments[other]]_vars

\* an ignored autonomous action was recorded for one task while the table
\* held an adjustment of another
C18_Witness ==
  /\ result.op = "record_feedback"
  /\ feedback_history # <<>>
  /\ feedback_history[Len(feedback_history)] = Ignored("fresh_task")
  /\ "log_rotation" \in DOMAIN priority_adjustments
  /\ priority_adjustments["log_rotation"] # FromInt(0)

\* the evaluator a restart would build has the history and the adjustments of
\* the running one
Persisted ==
  LET loaded == load_feedback_history(feedback_file)
  IN  /\ feedback_file.state = "ok"
      /\ loaded.feedback_history = feedback_history
      /\ loaded.priority_adjustments = priority_adjustments

ExpectedCalls(p, has_suggest, has_critical) ==
  IF p.decision_type = "suggest" /\ has_suggest
    THEN << [callback |-> "on_suggest", priority |-> p] >>
  ELSE IF p.decision_type = "interrupt" /\ has_critical
    THEN << [callback |-> "on_critical", priority |-> p] >>
  ELSE <<>>

\* C20 as stated: from the moment route has run its body, so before it
\* returns, it has made no call for an autonomous priority, one call of
\* on_suggest with the priority and none of on_critical for a suggest
\* priority, one call of on_critical with the priority and none of on_suggest
\* for an interrupt priority; the decision type it returns is the priority's.
C20_RouteDispatch ==
  result.op = "route" =>
    /\ callbacks = ExpectedCalls(result.priority, TRUE, TRUE)
    /\ result.phase = "returned" => result.returned = result.priority.decision_type

\* C20 amended: as stated, for the callbacks the router was built with; a
\* router built without on_suggest, or without on_critical, makes no call for
\* that decision type.
C20_RouteDispatchRegistered ==
  result.op = "route" =>
    /\ callbacks = ExpectedCalls(result.priority, router.on_suggest, router.on_critical)
    /\ result.phase = "returned" => result.returned = result.priority.decision_type

\* route is about to return for an interrupt priority, on_critical called
C20_Witness ==
  /\ result.op = "route"
  /\ result.phase = "running"
  /\ result.priority.decision_type = "interrupt"
  /\ callbacks = << [callback |-> "on_critical", priority |-> result.priority] >>

(***************************************************************************)
(* MemoryScheduler over an APScheduler BackgroundScheduler with its        *)
(* default job store in memory.  The scheduler object is the record        *)
(* [state, pending, jobs]: a job added while the scheduler is stopped      *)
(* waits in pending; start() moves the pending jobs to the job store, which *)
(* refuses an id it already holds; shutdown() empties the job store.       *)
(***************************************************************************)
MaxPending == 4

JobIds == <<"daily_compression", "weekly_archival", "threshold_check">>
\* the values CronTrigger accepts for hour and for day_of_week
CronHours == 0..23
CronDays == {"mon", "tue", "wed", "thu", "fri", "sat", "sun"}

\* MemoryJobStore.add_job for each pending job in turn: the job store
\* afterwards, and whether an id was already there (ConflictingIdError)
RECURSIVE real_add_jobs(_, _)
real_add_jobs(jobs, pending) ==
  IF pending = <<>> THEN [jobs |-> jobs, conflict |-> FALSE]
  ELSE IF \E i \in 1..Len(jobs) : jobs[i] = Head(pending)
    THEN [jobs |-> jobs, conflict |-> TRUE]
  ELSE real_add_jobs(Append(jobs, Head(pending)), Tail(pending))

\* scheduler.add_job(func, trigger, id=job_id) on a stopped scheduler
add_job(s, job_id) == [s EXCEPT !.pending = Append(@, job_id)]

\* scheduler.start(): raises, the job store keeping what was added before the
\* conflict and pending kept whole, or leaves the scheduler running
scheduler_start(s) ==
  LET added == real_add_jobs(s.jobs, s.pending)
  IN  IF added.conflict
        THEN [raised |-> TRUE, scheduler |-> [s EXCEPT !.jobs = added.jobs]]
        ELSE [raised |-> FALSE,
              scheduler |-> [state |-> "running", pending |-> <<>>, jobs |-> added.jobs]]

\* scheduler.shutdown(wait=False): the memory job store drops its jobs
shutdown(s) == [s EXCEPT !.state = "stopped", !.jobs = <<>>]

\* scheduler.get_jobs()
get_jobs(s) == IF s.state = "stopped" THEN s.pending ELSE s.jobs

\* the job list of get_status() whatever the running state
get_status_unguarded(running, s) == get_jobs(s)

\* the job ids of MemoryScheduler.get_status()["jobs"]
get_status(running, s) ==
  IF running /\ s.state # "stopped" THEN get_jobs(s) ELSE <<>>

\* MemoryScheduler.start(): what it returns and the fields afterwards.  The
\* trigger of a job is built before the job is added, and a CronTrigger
\* raises ValueError for a value out of its range.
start(running, s, cfg) ==
  IF running THEN [returned |-> FALSE, is_running |-> running, scheduler |-> s]
  ELSE IF cfg.compression_hour \notin CronHours
    THEN [returned |-> FALSE, is_running |-> FALSE, scheduler |-> s]
  ELSE IF cfg.archival_day \notin CronDays
    THEN [returned |-> FALSE, is_running |-> FALSE, scheduler |-> add_job(s, JobIds[1])]
  ELSE LET started == scheduler_start(add_job(add_job(add_job(s, JobIds[1]), JobIds[2]), JobIds[3]))
       IN  IF started.raised
             THEN [returned |-> FALSE, is_running |-> FALSE, scheduler |-> started.scheduler]
             ELSE [returned |-> TRUE, is_running |-> TRUE, scheduler |-> started.scheduler]

\* MemoryScheduler.stop()
stop(running, s) ==
  IF ~running THEN [returned |-> FALSE, is_running |-> running, scheduler |-> s]
  ELSE [returned |-> TRUE, is_running |-> FALSE, scheduler |-> shutdown(s)]

\* the "if name in kwargs: self.name = kwargs[name]" lines of reconfigure
apply_kwargs(cfg, kwargs) ==
  [name \in DOMAIN cfg |-> IF name \in DOMAIN kwargs THEN kwargs[name] ELSE cfg[name]]

\* MemoryScheduler.reconfigure(**kwargs)
reconfigure(running, s, cfg, kwargs) ==
  LET stopped == IF running THEN stop(running, s)
                 ELSE [returned |-> FALSE, is_running |-> running, scheduler |-> s]
      updated == apply_kwargs(cfg, kwargs)
      restarted == start(stopped.is_running, stopped.scheduler, updated)
  IN  IF running
        THEN [returned |-> restarted.returned, is_running |-> restarted.is_running,
              scheduler |-> restarted.scheduler, config |-> updated]
        ELSE [returned |-> TRUE, is_running |-> FALSE, scheduler |-> s, config |-> updated]

\* the keyword arguments reconfigure is called with
ReconfigureArgs ==
  { [compression_hour |-> 24],
    [archival_day |-> "xyz"],
    [compression_hour |-> 10, archival_day |-> "mon"],
    [compression_priority |-> 4, archival_priority |-> 4, threshold_priority |-> 8,
     memory_size_threshold_mb |-> 800] }

\* the priority callbacks a MemoryScheduler is built with: none, one that
\* takes the report, one that raises
JarvisCallbacks == {"None", "reports", "raises"}

(***************************************************************************)
(* The three jobs.  A job runs when the scheduler fires it ("scheduled":   *)
(* the scheduler is running and holds the job) or, for compression and     *)
(* archival, when trigger_compression_now / trigger_archival_now is called *)
(* ("manual").  job_calls keeps the calls the job made, in their order.    *)
(***************************************************************************)
MiB == 1024 * 1024

Hows == {"scheduled", "manual"}
Fires(how, job_id) ==
  how = "scheduled" =>
    /\ scheduler.state = "running"
    /\ \E i \in 1..Len(scheduler.jobs) : scheduler.jobs[i] = job_id

\* a job that reports only what is not autonomous
report_calls_above_autonomous(cb, level) ==
  IF cb = "None" \/ level <= 4 THEN <<>> ELSE << [call |-> "jarvis_callback", priority |-> level] >>

\* "if self.jarvis_callback: self.jarvis_callback(level, text)": the call made
report_calls(cb, level) ==
  IF cb = "None" THEN <<>> ELSE << [call |-> "jarvis_callback", priority |-> level] >>

\* a job that lets the exception of its callback escape
job_error_propagates(what) == [op |-> what, status |-> "raised"]

\* the "except Exception" of a job: the status record it returns
job_error(what) == [op |-> what, status |-> "ERROR"]

\* the call compression_service.tier_entries(*args) on a CompressionService:
\* tier_entries has the required parameter entries, so a call without it
\* raises TypeError before the body runs
call_tier_entries(args, now) ==
  IF Len(args) = 0
    THEN [raised |-> TRUE]
    ELSE [raised |-> FALSE,
          returned |-> tier_entries(args[1], DefaultPreserveRecent, DefaultWarmDays, now)]

\* MemoryScheduler._run_compression()
run_compression(how) ==
  /\ Fires(how, JobIds[1])
  /\ LET reported == report_calls(jarvis_callback, 3)
         called == call_tier_entries(<<>>, Now(clock))
     IN  IF jarvis_callback = "raises"
           THEN /\ job_calls' = [job |-> JobIds[1], how |-> how, calls |-> reported]
                /\ result' = job_error("_run_compression")
           ELSE /\ job_calls' = [job |-> JobIds[1], how |-> how,
                                 calls |-> Append(reported, [call |-> "tier_entries", args |-> <<>>])]
                /\ result' = IF called.raised
                               THEN job_error("_run_compression")
                               ELSE [op |-> "_run_compression", status |-> "tiers",
                                     returned |-> called.returned]
  /\ env' = NoFault
  /\ UNCHANGED <<store, archive, index, compressed, clock, ops, tierVars, engineVars,
                 is_running, scheduler, config, jarvis_callback, concVars>>

\* MemoryScheduler._run_archival(), the file system not failing
run_archival(how) ==
  /\ Fires(how, JobIds[2])
  /\ LET reported == report_calls(jarvis_callback, 3)
     IN  IF jarvis_callback = "raises"
           THEN /\ job_calls' = [job |-> JobIds[2], how |-> how, calls |-> reported]
                /\ result' = job_error("_run_archival")
                /\ UNCHANGED <<store, archive, index>>
           ELSE /\ job_calls' = [job |-> JobIds[2], how |-> how,
                                 calls |-> Append(reported, [call |-> "archive_old_entries",
                                                             older_than_days |-> DefaultOlderThanDays])]
                /\ archive_old_entries(DefaultOlderThanDays, NoFault)
  /\ env' = NoFault
  /\ UNCHANGED <<compressed, clock, ops, tierVars, engineVars,
                 is_running, scheduler, config, jarvis_callback, concVars>>

\* round(size / (1024 * 1024), 2) in hundredths of a MB: the division by a
\* power of two is exact, and round goes to the nearest hundredth, a tie to
\* the even one
size_mb(bytes) ==
  LET q == (100 * bytes) \div MiB
      r == (100 * bytes) % MiB
  IN  IF 2 * r < MiB THEN q
      ELSE IF 2 * r > MiB THEN q + 1
      ELSE IF q % 2 = 0 THEN q ELSE q + 1

\* ArchiveService.get_archive_stats()["total_size_mb"] in hundredths: the sum
\* of the rounded sizes of the partitions
RECURSIVE total_size_mb(_)
total_size_mb(partitions) ==
  IF partitions = <<>> THEN 0
  ELSE size_mb(Head(partitions)) + total_size_mb(Tail(partitions))

\* total_size_mb > self.memory_size_threshold_mb, the size of MEMORY.md not
\* rounded, both sides multiplied by 100 * MiB
threshold_exceeded(memory_bytes, partitions, threshold_mb) ==
  100 * memory_bytes + total_size_mb(partitions) * MiB > threshold_mb * MiB

\* the sizes the threshold job finds: the bytes of MEMORY.md and of each
\* archive partition
SizeCases ==
  { [memory |-> 0, partitions |-> <<>>],
    [memory |-> 5 * MiB, partitions |-> <<>>],
    [memory |-> 6 * MiB, partitions |-> <<>>],
    [memory |-> 5238000, partitions |-> <<5000>>],
    [memory |-> 5195000, partitions |-> <<47500>>] }

\* MemoryScheduler._check_thresholds(); stat_ok: memory_file.stat() succeeded
check_thresholds(sizes, stat_ok) ==
  /\ Fires("scheduled", JobIds[3])
  /\ LET exceeded == threshold_exceeded(sizes.memory, sizes.partitions,
                                        config.memory_size_threshold_mb)
         reported == report_calls(jarvis_callback, 6)
         found == [op |-> "_check_thresholds", memory_bytes |-> sizes.memory,
                   partitions |-> sizes.partitions]
     IN  IF ~stat_ok
           THEN /\ job_calls' = [job |-> JobIds[3], how |-> "scheduled",
                                 calls |-> << [call |-> "get_archive_stats"] >>]
                /\ result' = job_error("_check_thresholds")
           ELSE IF ~exceeded
           THEN /\ job_calls' = [job |-> JobIds[3], how |-> "scheduled",
                                 calls |-> << [call |-> "get_archive_stats"] >>]
                /\ result' = [op |-> "_check_thresholds", status |-> "OK",
                              memory_bytes |-> sizes.memory, partitions |-> sizes.partitions]
           ELSE /\ job_calls' = [job |-> JobIds[3], how |-> "scheduled",
                                 calls |-> << [call |-> "get_archive_stats"] >> \o reported]
                /\ result' = IF jarvis_callback = "raises"
                               THEN job_error("_check_thresholds")
                               ELSE [op |-> "_check_thresholds", status |-> "THRESHOLD_EXCEEDED",
                                     memory_bytes |-> sizes.memory,
                                     partitions |-> sizes.partitions]
  /\ env' = NoFault
  /\ UNCHANGED <<store, archive, index, compressed, clock, ops, tierVars, engineVars,
                 is_running, scheduler, config, jarvis_callback, concVars>>

(***************************************************************************)
(* The calls of start, stop and reconfigure.                               *)
(***************************************************************************)
Start ==
  /\ Len(scheduler.pending) + Len(JobIds) <= MaxPending
  /\ LET after == start(is_running, scheduler, config)
     IN  /\ is_running' = after.is_running
         /\ scheduler' = after.scheduler
         /\ result' = [op |-> "start", returned |-> after.returned]
  /\ job_calls' = NoCalls
  /\ env' = NoFault
  /\ UNCHANGED <<store, archive, index, compressed, clock, ops, tierVars, engineVars,
                 config, jarvis_callback, concVars>>

Stop ==
  /\ LET after == stop(is_running, scheduler)
     IN  /\ is_running' = after.is_running
         /\ scheduler' = after.scheduler
         /\ result' = [op |-> "stop", returned |-> after.returned]
  /\ job_calls' = NoCalls
  /\ env' = NoFault
  /\ UNCHANGED <<store, archive, index, compressed, clock, ops, tierVars, engineVars,
                 config, jarvis_callback, concVars>>

Reconfigure(kwargs) ==
  /\ Len(scheduler.pending) + Len(JobIds) <= MaxPending
  /\ LET after == reconfigure(is_running, scheduler, config, kwargs)
     IN  /\ is_running' = after.is_running
         /\ scheduler' = after.scheduler
         /\ config' = after.config
         /\ result' = [op |-> "reconfigure", returned |-> after.returned, kwargs |-> kwargs,
                       was_running |-> is_running]
  /\ job_calls' = NoCalls
  /\ env' = NoFault
  /\ UNCHANGED <<store, archive, index, compressed, clock, ops, tierVars, engineVars,
                 jarvis_callback, concVars>>

\* the MEMORY.md the scheduler is built over: empty, or one entry that is
\* older than 21 days
SchedStores ==
  { <<>>, << <<"*", " ", "[", "2026-10-02 12:00:00", "]", " ", "[", "cat", "]", " ", "note">> >> }
\* a MemoryScheduler just built, with or without a priority callback
SchedInit ==
  /\ store \in SchedStores
  /\ archive = [m \in Months |-> <<>>]
  /\ index = [m \in {} |-> 0]
  /\ compressed = 0
  /\ clock = ClockDays[1]
  /\ result = [op |-> "init"]
  /\ env = NoFault
  /\ ops = 0
  /\ tier_input = <<>>
  /\ feedback_history = <<>>
  /\ priority_adjustments = NoAdjustments
  /\ feedback_file = NoFile
  /\ router = NoCallbacks
  /\ callbacks = <<>>
  /\ is_running = FALSE
  /\ scheduler = NewScheduler
  /\ config = DefaultConfig
  /\ jarvis_callback \in JarvisCallbacks
  /\ job_calls = NoCalls
  /\ runs = NoRuns

SchedNext ==
  \/ Start
  \/ Stop
  \/ \E kwargs \in ReconfigureArgs : Reconfigure(kwargs)
  \/ \E how \in Hows : run_compression(how)
  \/ \E how \in Hows : run_archival(how)
  \/ \E sizes \in SizeCases, stat_ok \in BOOLEAN : check_thresholds(sizes, stat_ok)

SchedSpec == SchedInit /\ [][SchedNext]_vars

(***************************************************************************)
(* Properties of the scheduler.                                            *)
(***************************************************************************)
RECURSIVE SumBytes(_)
SumBytes(partitions) ==
  IF partitions = <<>> THEN 0 ELSE Head(partitions) + SumBytes(Tail(partitions))

\* the reports the last job made to the priority callback
Reports == SelectSeq(job_calls.calls, LAMBDA c : c.call = "jarvis_callback")

\* the last step was a run of the threshold job that read the sizes
ThresholdRun == result.op = "_check_thresholds" /\ "memory_bytes" \in DOMAIN result

\* the size of MEMORY.md plus the sizes of the archive partitions is more
\* than the threshold
TotalExceeds ==
  100 * (result.memory_bytes + SumBytes(result.partitions)) > config.memory_size_threshold_mb * MiB

\* C21: a run of the threshold job, on a scheduler built with a priority
\* callback, reports to the callback exactly once, at level 6, and returns
\* THRESHOLD_EXCEEDED when the size of MEMORY.md plus the total size of the
\* archive partitions exceeds the configured threshold; when it does not, the
\* job reports nothing and returns OK.
C21_ThresholdReport ==
  (ThresholdRun /\ jarvis_callback = "reports") =>
    IF TotalExceeds
      THEN /\ result.status = "THRESHOLD_EXCEEDED"
           /\ Reports = << [call |-> "jarvis_callback", priority |-> 6] >>
      ELSE /\ result.status = "OK"
           /\ Reports = <<>>

\* the last step was a run of the compression job or of the archival job
LifecycleRun == job_calls.job \in {JobIds[1], JobIds[2]}

\* the job made one report, at level 3, and made it before any other call
ReportedFirst ==
  /\ Reports = << [call |-> "jarvis_callback", priority |-> 3] >>
  /\ job_calls.calls[1].call = "jarvis_callback"
  /\ \A i \in 2..Len(job_calls.calls) :
       \/ job_calls.calls[i] = [call |-> "tier_entries", args |-> <<>>]
       \/ job_calls.calls[i] = [call |-> "archive_old_entries",
                                older_than_days |-> DefaultOlderThanDays]

\* C22 as stated: every run of the compression job and of the archival job,
\* fired by the scheduler or triggered by hand, calls the priority callback
\* exactly once, at level 3, before it calls the tier classifier or
\* archive_old_entries(21); the action is never executed without that report.
C22_ReportedBeforeActing ==
  LifecycleRun => ReportedFirst

\* C22 amended: the same for a scheduler that was built with a priority
\* callback; one built without a callback runs both jobs and reports nothing.
C22_ReportedBeforeActingWithCallback ==
  LifecycleRun =>
    IF jarvis_callback = "None" THEN Reports = <<>> /\ job_calls.calls # <<>>
    ELSE ReportedFirst

\* the scheduler fired the archival job, which reported and then archived
C22_Witness ==
  /\ job_calls = [job |-> JobIds[2], how |-> "scheduled",
                  calls |-> << [call |-> "jarvis_callback", priority |-> 3],
                               [call |-> "archive_old_entries",
                                older_than_days |-> DefaultOlderThanDays] >>]
  /\ result.op = "archive_old_entries"
  /\ result.status = "SUCCESS"

\* a step that ran one of the three jobs
JobStep == job_calls'.job # "none"

\* C23: an exception raised inside the compression job, the archival job or
\* the threshold check, the exception of the priority callback included,
\* does not leave the job: the job returns a status record, with status ERROR
\* when something raised, and the running flag, the scheduler and its jobs
\* are what they were before the job, so that the jobs can run again.
C23_JobErrorsContained ==
  [][JobStep =>
       /\ result'.status # "raised"
       /\ (jarvis_callback = "raises" /\ \E i \in 1..Len(job_calls'.calls) :
                                           job_calls'.calls[i].call = "jarvis_callback")
            => result'.status = "ERROR"
       /\ (\E i \in 1..Len(job_calls'.calls) : job_calls'.calls[i].call = "tier_entries")
            => result'.status = "ERROR"
       /\ UNCHANGED <<is_running, scheduler, config>>]_vars

\* the scheduler fired the archival job, the callback raised, and the
\* scheduler still runs with its three jobs
C23_Witness ==
  /\ job_calls.job = JobIds[2]
  /\ job_calls.how = "scheduled"
  /\ jarvis_callback = "raises"
  /\ result = [op |-> "_run_archival", status |-> "ERROR"]
  /\ is_running
  /\ scheduler.jobs = JobIds

\* a running scheduler holds the three jobs once each, a stopped one reports
\* no job
RegisteredOnce ==
  /\ is_running => /\ scheduler.state = "running"
                   /\ get_status(is_running, scheduler) = JobIds
  /\ ~is_running => get_status(is_running, scheduler) = <<>>

\* C24: after any sequence of start, stop and reconfigure calls, a running
\* scheduler has exactly the jobs daily_compression, weekly_archival and
\* threshold_check, once each, and a stopped scheduler reports none; start()
\* on a running scheduler returns False and registers nothing; stop() on a
\* stopped scheduler returns False and changes nothing.
C24_NoDoubleRegistration ==
  /\ []RegisteredOnce
  /\ [][/\ (result'.op = "start" /\ is_running)
             => result'.returned = FALSE /\ UNCHANGED <<is_running, scheduler, config>>
        /\ (result'.op = "stop" /\ ~is_running)
             => result'.returned = FALSE /\ UNCHANGED <<is_running, scheduler, config>>]_vars

\* a scheduler that reconfigure stopped and started again
C24_Witness ==
  /\ result.op = "reconfigure"
  /\ result.was_running
  /\ result.returned
  /\ is_running
  /\ scheduler.jobs = JobIds

\* C25: reconfigure called on a running scheduler stops it, sets every
\* parameter it was given, starts it again and returns True, the scheduler
\* running; called on a stopped scheduler it sets the parameters, returns True
\* and leaves the scheduler stopped; it never returns True with the scheduler
\* in another running state than before.
C25_ReconfigureKeepsRunning ==
  [][result'.op = "reconfigure" =>
       /\ config' = apply_kwargs(config, result'.kwargs)
       /\ result'.returned = TRUE
       /\ is_running' = is_running
       /\ is_running' => scheduler'.state = "running"]_vars

\* C28: a run of the compression job, fired by the scheduler or triggered by
\* hand, over a CompressionService and a readable MEMORY.md, calls the tier
\* classifier with the entries of the store and returns a status record whose
\* status is not ERROR.
C28_CompressionJobRuns ==
  (job_calls.job = JobIds[1] /\ jarvis_callback # "raises") =>
    /\ \E i \in 1..Len(job_calls.calls) :
         /\ job_calls.calls[i].call = "tier_entries"
         /\ job_calls.calls[i].args = <<repo_parse_entries(store)>>
    /\ result.status # "ERROR"

\* the priority field of the configuration that belongs to a job
ConfiguredPriority(job_id) ==
  CASE job_id = JobIds[1] -> config.compression_priority
    [] job_id = JobIds[2] -> config.archival_priority
    [] job_id = JobIds[3] -> config.threshold_priority

\* C29: every report a job makes to the priority callback is at the level its
\* priority field holds, so at the level the last reconfigure set.
C29_ReconfiguredPriority ==
  job_calls.job # "none" =>
    \A i \in 1..Len(Reports) : Reports[i].priority = ConfiguredPriority(job_calls.job)

\* the level evaluate returns for the arguments of the last call on an
\* evaluator that has recorded no feedback
LevelWithoutFeedback ==
  evaluate(result.task, "security", result.urgency, result.impact, result.blocked_count,
           NoAdjustments).level

\* C30: whatever feedback has been recorded, the level evaluate returns for a
\* task, an urgency, an impact and a blocked count differs by at most 1 from
\* the level it returns for them when no feedback has been recorded.
C30_FeedbackMovesLevelByOne ==
  result.op = "evaluate" =>
    /\ result.priority.level - LevelWithoutFeedback <= 1
    /\ LevelWithoutFeedback - result.priority.level <= 1

(***************************************************************************)
(* The archival job next to the foreground.  The job runs on a thread of   *)
(* the scheduler, trigger_archival_now and write_entry on the thread of    *)
(* their caller, and nothing locks MEMORY.md: a run of archive_old_entries *)
(* is three steps (it reads and splits the store, appends the old entries  *)
(* to the archive, rewrites the store), and the steps of the other threads *)
(* fall between them.  A job does not overlap itself; a triggered run can  *)
(* overlap the scheduled one.                                              *)
(***************************************************************************)
InFlight(how) == how \in DOMAIN runs

\* _run_archival up to steps 1-3 of archive_old_entries: the report, the read
\* of MEMORY.md and the split into old and recent entries
ArchivalRead(how) ==
  /\ ~InFlight(how)
  /\ Fires(how, JobIds[2])
  /\ jarvis_callback = "reports"
  /\ job_calls' = [job |-> JobIds[2], how |-> how,
                   calls |-> Append(report_calls(jarvis_callback, 3),
                                    [call |-> "archive_old_entries",
                                     older_than_days |-> DefaultOlderThanDays])]
  /\ LET entries == parse_memory_entries(store)
         old == old_entries(entries, DefaultOlderThanDays, clock)
         recent == recent_entries(entries, DefaultOlderThanDays, clock)
     IN  IF store = <<>> \/ old = <<>>
           THEN /\ result' = [op |-> "archive_old_entries", days |-> DefaultOlderThanDays,
                              status |-> "OK", archived_count |-> 0]
                /\ UNCHANGED runs
           ELSE /\ runs' = [r \in DOMAIN runs \cup {how} |->
                              IF r = how THEN [pc |-> "append", old |-> old, recent |-> recent]
                              ELSE runs[r]]
                /\ result' = [op |-> "archive_old_entries", days |-> DefaultOlderThanDays,
                              status |-> "reading"]
  /\ env' = NoFault
  /\ UNCHANGED <<store, archive, index, compressed, clock, ops, tierVars, engineVars,
                 is_running, scheduler, config, jarvis_callback>>

\* step 4 of archive_old_entries: the old entries are appended to the
\* partitions of their months and the index is updated
ArchivalAppend(how) ==
  /\ InFlight(how)
  /\ runs[how].pc = "append"
  /\ LET old == runs[how].old
         groups == group_ids(old)
     IN  /\ archive' = [m \in Months |->
                          IF m \in groups THEN archive[m] \o append_lines(group_by_month(old, m))
                          ELSE archive[m]]
         /\ index' = update_index_all(index, groups, old)
  /\ runs' = [runs EXCEPT ![how].pc = "rewrite"]
  /\ result' = [op |-> "archive_old_entries", days |-> DefaultOlderThanDays,
                status |-> "appending"]
  /\ env' = NoFault
  /\ UNCHANGED <<store, compressed, clock, ops, tierVars, engineVars, schedVars>>

\* step 5 of archive_old_entries: MEMORY.md is replaced by the recent entries
\* of the read, and the run returns
ArchivalRewrite(how) ==
  /\ InFlight(how)
  /\ runs[how].pc = "rewrite"
  /\ store' = format_entries_to_memory(runs[how].recent)
  /\ runs' = [r \in DOMAIN runs \ {how} |-> runs[r]]
  /\ result' = [op |-> "archive_old_entries", days |-> DefaultOlderThanDays,
                status |-> "SUCCESS", archived_count |-> Len(runs[how].old),
                recent_count |-> Len(runs[how].recent),
                files_created |-> group_ids(runs[how].old), memory_updated |-> TRUE]
  /\ env' = NoFault
  /\ UNCHANGED <<archive, index, compressed, clock, ops, tierVars, engineVars, schedVars>>

\* the entry of MEMORY.md that is older than 21 days, and one that is not
OldLine == <<"*", " ", "[", "2026-10-02 12:00:00", "]", " ", "[", "cat", "]", " ", "note">>
RecentLine == <<"*", " ", "[", "2026-11-01", "]", " ", "[", "cat", "]", " ", "note">>

\* the agent has built its services over a MEMORY.md and started the
\* scheduler
ConcInit ==
  /\ store \in {<<OldLine>>, <<RecentLine, OldLine>>}
  /\ archive = [m \in Months |-> <<>>]
  /\ index = [m \in {} |-> 0]
  /\ compressed = 0
  /\ clock = ClockDays[1]
  /\ result = [op |-> "init"]
  /\ env = NoFault
  /\ ops = 0
  /\ tier_input = <<>>
  /\ feedback_history = <<>>
  /\ priority_adjustments = NoAdjustments
  /\ feedback_file = NoFile
  /\ router = NoCallbacks
  /\ callbacks = <<>>
  /\ is_running = TRUE
  /\ scheduler = [state |-> "running", pending |-> <<>>, jobs |-> JobIds]
  /\ config = DefaultConfig
  /\ jarvis_callback = "reports"
  /\ job_calls = NoCalls
  /\ runs = NoRuns

ConcNext ==
  \/ write_entry(<<"cat">>, <<"note">>, <<>>)
  \/ \E how \in Hows : ArchivalRead(how)
  \/ \E how \in Hows : ArchivalAppend(how)
  \/ \E how \in Hows : ArchivalRewrite(how)
  \/ Stop
  \/ Start

ConcSpec == ConcInit /\ [][ConcNext]_vars

\* the lines of MEMORY.md and of the archive partitions that hold the token t
RECURSIVE LinesWith(_, _)
LinesWith(lines, t) ==
  IF lines = <<>> THEN 0
  ELSE (IF \E i \in 1..Len(Head(lines)) : Head(lines)[i] = t THEN 1 ELSE 0)
       + LinesWith(Tail(lines), t)

RECURSIVE ArchivedWith(_, _)
ArchivedWith(ms, t) ==
  IF ms = {} THEN 0
  ELSE LET m == CHOOSE x \in ms : TRUE
       IN  LinesWith(archive[m], t) + ArchivedWith(ms \ {m}, t)

\* C26: whatever the interleaving of write_entry with a run of
\* archive_old_entries, once no run is in flight every entry the foreground
\* has appended (each carries the time of its writing) is in MEMORY.md or in
\* an archive partition.  (write_entry is the one operation counted in ops.)
C26_AppendSurvivesArchival ==
  runs = NoRuns =>
    LinesWith(store, StrfDateTime(clock)) + ArchivedWith(Months, StrfDateTime(clock)) >= ops

\* C27: when archival runs overlap, once no run is in flight the old entry
\* of MEMORY.md is in the store or in its archive partition, and in the
\* archive at most once.
C27_ArchivedOnce ==
  runs = NoRuns =>
    /\ LinesWith(store, "2026-10-02 12:00:00") + ArchivedWith(Months, "2026-10-02 12:00:00") >= 1
    /\ ArchivedWith(Months, "2026-10-02 12:00:00") <= 1

====
